---- MODULE Spec2Model ----
(***************************************************************************)
(* Model of the DHT-20 sensor driver, src/src/models/dht_20.py (class      *)
(* Dht20).  One driver instance, its bus handle and configured bus number, *)
(* and the host calls new / reconfigure / close / get_readings /           *)
(* do_command / get_geometries.  Every call is one action; the bus         *)
(* operations the call issues are recorded, in order, in `trace`, the      *)
(* lines it logs in `logs`, and what the caller sees in `result`.          *)
(*                                                                         *)
(* A handle is "open" from the moment smbus2.SMBus(n) returns it until     *)
(* close() is called on it (whether or not that close() raises).           *)
(* Times are in milliseconds.                                              *)
(***************************************************************************)
EXTENDS Integers, Sequences, FiniteSets, TLC

VARIABLES
    phase,            \* "created" after __init__, "live" once new returned,
                      \* "discarded" when new raised
    i2c_bus,          \* self.i2c_bus: NoneH or a handle
    i2c_bus_number,   \* self.i2c_bus_number
    openHandles,      \* handles opened and not yet closed
    handleBus,        \* the bus number each open handle was opened on
    nextHandle,       \* identity of the next SMBus object
    lastConfigure,    \* how the most recent new / reconfigure ended
    lastConfig,       \* the configuration handed to the most recent
                      \* validate_config / new / reconfigure
    lastCall,         \* the most recent host call
    trace,            \* bus operations issued by the most recent call
    logs,             \* lines logged by the most recent call
    result,           \* what the caller of the most recent call saw
    probe,            \* decoding check: the raw values and the frame that
                      \* carries them
    loop,             \* concurrency check: the call the event loop is
                      \* running, NoCall when it is free
    calls,            \* concurrency check: each host call's coroutine
    busLog            \* concurrency check: the bus transfers, in order

driverVars == <<phase, i2c_bus, i2c_bus_number, openHandles, handleBus, nextHandle,
                lastConfigure, lastConfig, lastCall, trace, logs, result>>
auxVars == <<probe, loop, calls, busLog>>
vars == <<driverVars, auxVars>>

(* ------------------------------ bounds --------------------------------- *)
\* number of SMBus objects the model lets the driver construct
MaxOpens == 2
\* bus numbers a configuration may name are 0..MaxBus
MaxBus == 1
\* number of host calls in flight together in the concurrency check
NumCalls == 2

(* -------------------------- program constants -------------------------- *)
DHT20_I2C_ADDRESS == 56
DHT20_CMD_INIT == 113
DHT20_CMD_MEASURE == 172
DHT20_MEASURE_PARAMS == <<51, 0>>
DHT20_MEASURE_DELAY == 100
PRESENCE_DELAY == 500
STATUS_LEN == 1
FRAME_LEN == 7
DEFAULT_BUS == 1
STATUS_MASK == 8

\* self.i2c_bus = None
NoneH == 0

MSG_NOT_INIT == "I2C bus not initialized"
MSG_NOT_RESPONDING == "DHT-20 sensor not responding at address 0x38"
MSG_READ_FAILED == "Failed to read DHT-20 sensor data"
MSG_NONE_ATTR == "'NoneType' object has no attribute 'write_i2c_block_data'"
MSG_UNKNOWN == "Unknown command"
MSG_OS_ERROR == "OSError"

(* ------------------------- environment inputs -------------------------- *)
\* status bytes the sensor may answer the 1-byte read with
StatusBytes == {0, 24, 128}
\* outcome of the 1-byte status read: an I/O exception, or a byte
StatusOutcomes ==
    {[ok |-> FALSE, byte |-> 0]} \cup {[ok |-> TRUE, byte |-> b] : b \in StatusBytes}

\* 7-byte frames the sensor may answer the measurement read with
Frames ==
    { <<0, 0, 0, 25, 153, 153, 0>>,
      <<28, 255, 255, 255, 255, 255, 77>>,
      <<0, 0, 0, 0, 0, 0, 0>> }
\* the frame used where only the success of the read matters
Frames1 == <<0, 0, 0, 25, 153, 153, 0>>
\* outcome of the 7-byte read: an I/O exception, or a frame
ReadOutcomes ==
    {[ok |-> FALSE, data |-> <<>>]} \cup {[ok |-> TRUE, data |-> f] : f \in Frames}

\* placeholders for an outcome the call never consults
NoStatus == [ok |-> FALSE, byte |-> 0]
NoRead == [ok |-> FALSE, data |-> <<>>]

\* a ComponentConfig: attributes empty or not, whether they carry i2c_bus,
\* and the Python type and value of i2c_bus (the value of a float or str is
\* never looked at)
Cfg(hasAttrs, hasBus, kind, n) ==
    [hasAttrs |-> hasAttrs, hasBus |-> hasBus, kind |-> kind, i2c_bus |-> n]

\* the configurations a host may hand to validate_config
Configs ==
    {Cfg(FALSE, FALSE, "int", 0), Cfg(TRUE, FALSE, "int", 0)}
    \cup {Cfg(TRUE, TRUE, "int", n) : n \in (0 - 1)..MaxBus}
    \cup {Cfg(TRUE, TRUE, "float", 0), Cfg(TRUE, TRUE, "str", 0)}

\* command names a do_command map may carry
Commands == {"get_status", "get_raw_data", "reboot", "None"}

(* ------------------------------ bit ops -------------------------------- *)
RECURSIVE BitOr(_, _)
BitOr(a, b) ==
    IF a = 0 THEN b
    ELSE IF b = 0 THEN a
    ELSE (IF a % 2 = 1 \/ b % 2 = 1 THEN 1 ELSE 0) + 2 * BitOr(a \div 2, b \div 2)

RECURSIVE BitAnd(_, _)
BitAnd(a, b) ==
    IF a = 0 \/ b = 0 THEN 0
    ELSE (IF a % 2 = 1 /\ b % 2 = 1 THEN 1 ELSE 0) + 2 * BitAnd(a \div 2, b \div 2)

(* ------------------------- records of the model ------------------------ *)
\* one bus operation (or sleep) issued by a call; `held` is the set of
\* handles open at the moment the operation is issued
Ev(op, h, bus, reg, len, data, ms, ok, held) ==
    [op |-> op, h |-> h, bus |-> bus, addr |-> DHT20_I2C_ADDRESS, reg |-> reg,
     len |-> len, data |-> data, ms |-> ms, ok |-> ok, held |-> held]

EvOpen(n, h, ok, held) == Ev("open", h, n, 0, 0, <<>>, 0, ok, held)
EvClose(h, ok, held) == Ev("close", h, 0, 0, 0, <<>>, 0, ok, held)
EvSleep(ms, held) == Ev("sleep", NoneH, 0, 0, 0, <<>>, ms, TRUE, held)
EvWrite(h, reg, data, ok, held) == Ev("write", h, 0, reg, Len(data), data, 0, ok, held)
\* data is what the read returned (empty when it raised)
EvRead(h, reg, len, ok, data, held) == Ev("read", h, 0, reg, len, data, 0, ok, held)

Log(level, text) == [level |-> level, text |-> text]

\* what the caller of a host call sees
Res(kind, msg, cause, status, bus, reading, raw) ==
    [kind |-> kind, msg |-> msg, cause |-> cause, status |-> status,
     bus |-> bus, reading |-> reading, raw |-> raw]

Returned(status, msg, cause, bus, reading, raw) ==
    Res("return", msg, cause, status, bus, reading, raw)
Raised(msg, cause) == Res("raise", msg, cause, "", 0, <<>>, <<>>)
NoResult == Res("none", "", "", "", 0, <<>>, <<>>)

Call(op, arg) == [op |-> op, arg |-> arg]

(* -------------------------- validate_config ---------------------------- *)
\* variant of validate_config without the "i2c_bus < 0" test
validate_config_NoSignTest(cfg, haveSmbus) ==
    IF ~haveSmbus
    THEN Raised("smbus2 library is required for DHT-20 sensor", "")
    ELSE IF cfg.hasAttrs /\ cfg.hasBus /\ cfg.kind # "int"
    THEN Raised("i2c_bus must be a non-negative integer", "")
    ELSE Returned("", "", "", 0, <<>>, <<>>)

\* validate_config(cls, config); haveSmbus is "smbus2 is not None"
validate_config(cfg, haveSmbus) ==
    IF ~haveSmbus
    THEN Raised("smbus2 library is required for DHT-20 sensor", "")
    ELSE IF cfg.hasAttrs /\ cfg.hasBus /\ (cfg.kind # "int" \/ cfg.i2c_bus < 0)
    THEN Raised("i2c_bus must be a non-negative integer", "")
    ELSE Returned("", "", "", 0, <<>>, <<>>)

\* the configurations that reach new / reconfigure: the host validates a
\* configuration with validate_config before it builds or reconfigures
ValidConfigs == {cfg \in Configs : validate_config(cfg, TRUE).kind = "return"}

(* --------------------------- reconfigure ------------------------------- *)
\* variant of CloseExisting that drops the reference without calling close()
CloseExisting_DropOnly(bus, open, closeOk) ==
    [bus |-> NoneH, open |-> open, trace |-> <<>>, logs |-> <<>>]

\* variant of CloseExisting without the finally clause: close() is called but
\* the reference to the closed handle is kept
CloseExisting_KeepRef(bus, open, closeOk) ==
    IF bus # NoneH
    THEN [bus |-> bus,
          open |-> open \ {bus},
          trace |-> <<EvClose(bus, closeOk, open)>>,
          logs |-> IF closeOk THEN <<>>
                   ELSE <<Log("warning", "Error closing I2C bus")>>]
    ELSE [bus |-> NoneH, open |-> open, trace |-> <<>>, logs |-> <<>>]

\* reconfigure, "Close existing I2C connection if any": close() is called on
\* the held handle, an exception of close() is logged and swallowed, and the
\* reference is dropped in the finally clause
CloseExisting(bus, open, closeOk) ==
    IF bus # NoneH
    THEN [bus |-> NoneH,
          open |-> open \ {bus},
          trace |-> <<EvClose(bus, closeOk, open)>>,
          logs |-> IF closeOk THEN <<>>
                   ELSE <<Log("warning", "Error closing I2C bus")>>]
    ELSE [bus |-> NoneH, open |-> open, trace |-> <<>>, logs |-> <<>>]

\* reconfigure, "Get I2C bus number from configuration"
ConfiguredNumber(cfg, number) ==
    IF cfg.hasAttrs
    THEN (IF cfg.hasBus THEN cfg.i2c_bus ELSE DEFAULT_BUS)
    ELSE number

\* _check_sensor_presence: the soft test of the status byte
StatusIndicatesError(byte) == BitOr(byte, STATUS_MASK) = 0

\* _check_sensor_presence(self), with self.i2c_bus = bus; st is the outcome
\* of the 1-byte read
check_sensor_presence(bus, open, st) ==
    IF bus = NoneH
    THEN [raised |-> TRUE, msg |-> MSG_NOT_INIT, cause |-> "",
          trace |-> <<>>, logs |-> <<>>]
    ELSE LET tr == <<EvSleep(PRESENCE_DELAY, open),
                     EvRead(bus, DHT20_CMD_INIT, STATUS_LEN, st.ok,
                            IF st.ok THEN <<st.byte>> ELSE <<>>, open)>>
         IN  IF ~st.ok
             THEN [raised |-> TRUE, msg |-> MSG_NOT_RESPONDING,
                   cause |-> MSG_OS_ERROR, trace |-> tr, logs |-> <<>>]
             ELSE [raised |-> FALSE, msg |-> "", cause |-> "", trace |-> tr,
                   logs |-> IF StatusIndicatesError(st.byte)
                            THEN <<Log("warning",
                                   "DHT-20 sensor initialization status indicates error")>>
                            ELSE <<Log("debug",
                                   "DHT-20 sensor initialization check passed")>>]

\* variant of OpenAndCheck that opens the default bus whatever number is
\* configured
OpenAndCheck_DefaultBus(bus, number, open, h, openOk, st) ==
    IF ~openOk
    THEN [bus |-> bus, open |-> open, raised |-> TRUE,
          msg |-> MSG_OS_ERROR, cause |-> "",
          trace |-> <<EvOpen(DEFAULT_BUS, NoneH, FALSE, open)>>,
          logs |-> <<Log("error", "Failed to initialize DHT-20 sensor")>>]
    ELSE LET open2 == open \cup {h}
             pc == check_sensor_presence(h, open2, st)
         IN  [bus |-> h, open |-> open2, raised |-> pc.raised,
              msg |-> pc.msg, cause |-> pc.cause,
              trace |-> <<EvOpen(DEFAULT_BUS, h, TRUE, open)>> \o pc.trace,
              logs |-> <<Log("info", "DHT-20 initialized on I2C bus")>> \o pc.logs
                       \o (IF pc.raised
                           THEN <<Log("error", "Failed to initialize DHT-20 sensor")>>
                           ELSE <<>>)]

\* variant of OpenAndCheck that does not run the presence check
OpenAndCheck_NoCheck(bus, number, open, h, openOk, st) ==
    IF ~openOk
    THEN [bus |-> bus, open |-> open, raised |-> TRUE,
          msg |-> MSG_OS_ERROR, cause |-> "",
          trace |-> <<EvOpen(number, NoneH, FALSE, open)>>,
          logs |-> <<Log("error", "Failed to initialize DHT-20 sensor")>>]
    ELSE [bus |-> h, open |-> open \cup {h}, raised |-> FALSE,
          msg |-> "", cause |-> "",
          trace |-> <<EvOpen(number, h, TRUE, open)>>,
          logs |-> <<Log("info", "DHT-20 initialized on I2C bus")>>]

\* reconfigure, "Initialize I2C connection": smbus2.SMBus(number) either
\* raises (nothing is assigned) or returns the fresh handle h, which is
\* assigned to self.i2c_bus before the presence check runs
OpenAndCheck(bus, number, open, h, openOk, st) ==
    IF ~openOk
    THEN [bus |-> bus, open |-> open, raised |-> TRUE,
          msg |-> MSG_OS_ERROR, cause |-> "",
          trace |-> <<EvOpen(number, NoneH, FALSE, open)>>,
          logs |-> <<Log("error", "Failed to initialize DHT-20 sensor")>>]
    ELSE LET open2 == open \cup {h}
             pc == check_sensor_presence(h, open2, st)
         IN  [bus |-> h, open |-> open2, raised |-> pc.raised,
              msg |-> pc.msg, cause |-> pc.cause,
              trace |-> <<EvOpen(number, h, TRUE, open)>> \o pc.trace,
              logs |-> <<Log("info", "DHT-20 initialized on I2C bus")>> \o pc.logs
                       \o (IF pc.raised
                           THEN <<Log("error", "Failed to initialize DHT-20 sensor")>>
                           ELSE <<>>)]

\* variant of reconfigure that opens the new handle first and closes the
\* previously held one afterwards
reconfigure_OpenFirst(bus, number, open, h, cfg, closeOk, openOk, st) ==
    LET n == ConfiguredNumber(cfg, number)
        o == OpenAndCheck(NoneH, n, open, h, openOk, st)
        c == CloseExisting(bus, o.open, closeOk)
    IN  [bus |-> o.bus, number |-> n, open |-> c.open,
         opened |-> openOk,
         outcome |-> IF ~openOk THEN "open_failed"
                     ELSE IF o.raised THEN "presence_failed"
                     ELSE "ready",
         trace |-> o.trace \o c.trace,
         logs |-> o.logs \o c.logs,
         result |-> IF o.raised THEN Raised(o.msg, o.cause)
                    ELSE Returned("", "", "", 0, <<>>, <<>>)]

\* the whole body of reconfigure(self, config, dependencies)
reconfigure(bus, number, open, h, cfg, closeOk, openOk, st) ==
    LET c == CloseExisting(bus, open, closeOk)
        n == ConfiguredNumber(cfg, number)
        o == OpenAndCheck(c.bus, n, c.open, h, openOk, st)
    IN  [bus |-> o.bus, number |-> n, open |-> o.open,
         opened |-> openOk,
         outcome |-> IF ~openOk THEN "open_failed"
                     ELSE IF o.raised THEN "presence_failed"
                     ELSE "ready",
         trace |-> c.trace \o o.trace,
         logs |-> c.logs \o o.logs,
         result |-> IF o.raised THEN Raised(o.msg, o.cause)
                    ELSE Returned("", "", "", 0, <<>>, <<>>)]

(* ------------------------------- close --------------------------------- *)
\* variant of close without the finally clause: the reference is kept when
\* the bus close raises
close_NoFinally(bus, open, closeOk) ==
    IF bus # NoneH
    THEN [bus |-> IF closeOk THEN NoneH ELSE bus,
          open |-> open \ {bus},
          trace |-> <<EvClose(bus, closeOk, open)>>,
          logs |-> IF closeOk THEN <<Log("debug", "I2C bus closed")>>
                   ELSE <<Log("warning", "Error closing I2C bus")>>]
    ELSE [bus |-> NoneH, open |-> open, trace |-> <<>>, logs |-> <<>>]

\* variant of close that drops the reference without calling close()
close_DropOnly(bus, open, closeOk) ==
    [bus |-> NoneH, open |-> open, trace |-> <<>>, logs |-> <<>>]

\* close(self)
close(bus, open, closeOk) ==
    IF bus # NoneH
    THEN [bus |-> NoneH,
          open |-> open \ {bus},
          trace |-> <<EvClose(bus, closeOk, open)>>,
          logs |-> IF closeOk THEN <<Log("debug", "I2C bus closed")>>
                   ELSE <<Log("warning", "Error closing I2C bus")>>]
    ELSE [bus |-> NoneH, open |-> open, trace |-> <<>>, logs |-> <<>>]

(* --------------------------- measurement -------------------------------- *)
TwoPow20 == 1048576

\* variant of temp_raw that masks data[3] with 0xf0 instead of 0xf
temp_raw_WrongMask(data) == BitAnd(data[4], 240) * 65536 + data[5] * 256 + data[6]

\* temp_raw = ((data[3] & 0xf) << 16) + (data[4] << 8) + data[5]; the model's
\* sequences are 1-based, so data[k] of the code is data[k + 1] here
temp_raw(data) == BitAnd(data[4], 15) * 65536 + data[5] * 256 + data[6]

\* humid_raw = ((data[3] & 0xf0) >> 4) + (data[1] << 12) + (data[2] << 4)
humid_raw(data) == (BitAnd(data[4], 240) \div 16) + data[2] * 4096 + data[3] * 16

\* variant of temperature20 that clamps the temperature to [-40, 80]
temperature20_Clamped(data) ==
    LET t == 200 * temp_raw(data) - 50 * TwoPow20
    IN  IF t < (0 - 40) * TwoPow20 THEN (0 - 40) * TwoPow20
        ELSE IF t > 80 * TwoPow20 THEN 80 * TwoPow20
        ELSE t

\* temperature and humidity, both scaled by 2^20 so that they stay integers:
\* temperature = 200.0 * temp_raw / 2^20 - 50.0, humidity = 100.0 * humid_raw / 2^20
temperature20(data) == 200 * temp_raw(data) - 50 * TwoPow20
humidity20(data) == 100 * humid_raw(data)

\* "Validate readings are within reasonable ranges": warnings only
RangeLogs(data) ==
    (IF temperature20(data) < (0 - 40) * TwoPow20 \/ temperature20(data) > 80 * TwoPow20
     THEN <<Log("warning", "Temperature reading out of expected range")>>
     ELSE <<>>)
    \o (IF humidity20(data) < 0 \/ humidity20(data) > 100 * TwoPow20
        THEN <<Log("warning", "Humidity reading out of expected range")>>
        ELSE <<>>)

\* variant of MeasureTrace without the settle wait
MeasureTrace_NoSleep(bus, open, wOk, rd) ==
    <<EvWrite(bus, DHT20_CMD_MEASURE, DHT20_MEASURE_PARAMS, wOk, open)>>
    \o (IF wOk
        THEN <<EvRead(bus, DHT20_CMD_INIT, FRAME_LEN, rd.ok, rd.data, open)>>
        ELSE <<>>)

\* the write / sleep / read sequence of a measurement on handle bus, shared
\* by _read_sensor_data and do_command "get_raw_data"; wOk is the outcome of
\* the block write, rd the outcome of the 7-byte read
MeasureTrace(bus, open, wOk, rd) ==
    <<EvWrite(bus, DHT20_CMD_MEASURE, DHT20_MEASURE_PARAMS, wOk, open)>>
    \o (IF wOk
        THEN <<EvSleep(DHT20_MEASURE_DELAY, open),
               EvRead(bus, DHT20_CMD_INIT, FRAME_LEN, rd.ok, rd.data, open)>>
        ELSE <<>>)

\* variant of _read_sensor_data without the "bus is None" guard
read_sensor_data_NoGuard(bus, open, wOk, rd) ==
    IF wOk /\ rd.ok
    THEN [raised |-> FALSE, msg |-> "", cause |-> "",
          reading |-> <<temperature20(rd.data), humidity20(rd.data)>>,
          trace |-> MeasureTrace(bus, open, wOk, rd),
          logs |-> RangeLogs(rd.data) \o <<Log("debug", "DHT-20 reading")>>]
    ELSE [raised |-> TRUE, msg |-> MSG_READ_FAILED, cause |-> MSG_OS_ERROR,
          reading |-> <<>>, trace |-> MeasureTrace(bus, open, wOk, rd),
          logs |-> <<>>]

\* variant of _read_sensor_data that answers a failed transaction with a
\* zero reading instead of raising
read_sensor_data_Fallback(bus, open, wOk, rd) ==
    IF bus = NoneH
    THEN [raised |-> TRUE, msg |-> MSG_NOT_INIT, cause |-> "",
          reading |-> <<>>, trace |-> <<>>, logs |-> <<>>]
    ELSE IF wOk /\ rd.ok
    THEN [raised |-> FALSE, msg |-> "", cause |-> "",
          reading |-> <<temperature20(rd.data), humidity20(rd.data)>>,
          trace |-> MeasureTrace(bus, open, wOk, rd),
          logs |-> RangeLogs(rd.data) \o <<Log("debug", "DHT-20 reading")>>]
    ELSE [raised |-> FALSE, msg |-> "", cause |-> "",
          reading |-> <<0, 0>>, trace |-> MeasureTrace(bus, open, wOk, rd),
          logs |-> <<>>]

\* _read_sensor_data(self), with self.i2c_bus = bus
read_sensor_data(bus, open, wOk, rd) ==
    IF bus = NoneH
    THEN [raised |-> TRUE, msg |-> MSG_NOT_INIT, cause |-> "",
          reading |-> <<>>, trace |-> <<>>, logs |-> <<>>]
    ELSE IF wOk /\ rd.ok
    THEN [raised |-> FALSE, msg |-> "", cause |-> "",
          reading |-> <<temperature20(rd.data), humidity20(rd.data)>>,
          trace |-> MeasureTrace(bus, open, wOk, rd),
          logs |-> RangeLogs(rd.data) \o <<Log("debug", "DHT-20 reading")>>]
    ELSE [raised |-> TRUE, msg |-> MSG_READ_FAILED, cause |-> MSG_OS_ERROR,
          reading |-> <<>>, trace |-> MeasureTrace(bus, open, wOk, rd),
          logs |-> <<>>]

\* get_readings(self): the reading is returned, an exception is logged and
\* re-raised
get_readings(bus, open, wOk, rd) ==
    LET r == read_sensor_data(bus, open, wOk, rd)
    IN  [trace |-> r.trace,
         logs |-> r.logs \o (IF r.raised
                             THEN <<Log("error", "Failed to get DHT-20 readings")>>
                             ELSE <<>>),
         result |-> IF r.raised THEN Raised(r.msg, r.cause)
                    ELSE Returned("", "", "", 0, r.reading, <<>>)]

(* ----------------------------- do_command ------------------------------- *)
\* do_command, branch "get_status"
get_status(bus, number, open, st) ==
    LET pc == check_sensor_presence(bus, open, st)
    IN  [trace |-> pc.trace, logs |-> pc.logs,
         result |-> IF pc.raised
                    THEN Returned("error", pc.msg, pc.cause, 0, <<>>, <<>>)
                    ELSE Returned("ok", "", "", number, <<>>, <<>>)]

\* variant of the "get_raw_data" branch without its try/except
get_raw_data_Propagates(bus, open, wOk, rd) ==
    IF bus = NoneH
    THEN [trace |-> <<>>, logs |-> <<>>, result |-> Raised(MSG_NONE_ATTR, "")]
    ELSE [trace |-> MeasureTrace(bus, open, wOk, rd), logs |-> <<>>,
          result |-> IF wOk /\ rd.ok
                     THEN Returned("", "", "", 0, <<>>, rd.data)
                     ELSE Raised(MSG_OS_ERROR, "")]

\* do_command, branch "get_raw_data": with self.i2c_bus = None the attribute
\* lookup raises AttributeError inside the try, which is returned as a value
get_raw_data(bus, open, wOk, rd) ==
    IF bus = NoneH
    THEN [trace |-> <<>>, logs |-> <<>>,
          result |-> Returned("", MSG_NONE_ATTR, "", 0, <<>>, <<>>)]
    ELSE [trace |-> MeasureTrace(bus, open, wOk, rd), logs |-> <<>>,
          result |-> IF wOk /\ rd.ok
                     THEN Returned("", "", "", 0, <<>>, rd.data)
                     ELSE Returned("", MSG_OS_ERROR, "", 0, <<>>, <<>>)]

\* do_command(self, command): cmd is command.get("command")
do_command(cmd, bus, number, open, st, wOk, rd) ==
    IF cmd = "get_status" THEN get_status(bus, number, open, st)
    ELSE IF cmd = "get_raw_data" THEN get_raw_data(bus, open, wOk, rd)
    ELSE [trace |-> <<>>, logs |-> <<>>,
          result |-> Returned("", MSG_UNKNOWN, cmd, 0, <<>>, <<>>)]

(* ------------------------------ the machine ----------------------------- *)
Calls == 1..NumCalls
NoCall == 0
NoProbe == [temp |-> 0, humid |-> 0, frame |-> <<>>]
\* a host call that was not invoked yet
IdleCall == [state |-> "idle", kind |-> "", program |-> <<>>, pos |-> 0]

\* the decoding and concurrency checks are not running
AuxIdle ==
    /\ probe = NoProbe
    /\ loop = NoCall
    /\ calls = [t \in Calls |-> IdleCall]
    /\ busLog = <<>>

\* __init__: no handle, default bus number; nothing opened yet
Init ==
    /\ phase = "created"
    /\ i2c_bus = NoneH
    /\ i2c_bus_number = DEFAULT_BUS
    /\ openHandles = {}
    /\ handleBus = [h \in 1..MaxOpens |-> 0]
    /\ nextHandle = 1
    /\ lastConfigure = "none"
    /\ lastConfig = Cfg(FALSE, FALSE, "int", 0)
    /\ lastCall = Call("__init__", "")
    /\ trace = <<>>
    /\ logs = <<>>
    /\ result = NoResult
    /\ AuxIdle

\* the state change common to new and reconfigure
DoReconfigure(cfg, closeOk, openOk, st) ==
    LET r == reconfigure(i2c_bus, i2c_bus_number, openHandles, nextHandle,
                         cfg, closeOk, openOk, st)
    IN  /\ i2c_bus' = r.bus
        /\ i2c_bus_number' = r.number
        /\ openHandles' = r.open
        /\ handleBus' = [h \in 1..MaxOpens |->
                            IF h \notin r.open THEN 0
                            ELSE IF \E i \in DOMAIN r.trace :
                                       r.trace[i].op = "open" /\ r.trace[i].h = h
                            THEN LET i == CHOOSE i \in DOMAIN r.trace :
                                              r.trace[i].op = "open" /\ r.trace[i].h = h
                                 IN  r.trace[i].bus
                            ELSE handleBus[h]]
        /\ nextHandle' = IF r.opened THEN nextHandle + 1 ELSE nextHandle
        /\ lastConfigure' = r.outcome
        /\ lastConfig' = cfg
        /\ trace' = r.trace
        /\ logs' = r.logs
        /\ result' = r.result

\* validate_config(config): a classmethod, it needs no instance
ValidateConfig ==
    /\ phase \in {"created", "live"}
    /\ \E cfg \in Configs, haveSmbus \in BOOLEAN :
          /\ result' = validate_config(cfg, haveSmbus)
          /\ lastConfig' = cfg
    /\ trace' = <<>>
    /\ logs' = <<>>
    /\ lastCall' = Call("validate_config", "")
    /\ UNCHANGED <<phase, i2c_bus, i2c_bus_number, openHandles, handleBus, nextHandle,
                   lastConfigure, auxVars>>

\* new(config, dependencies): the base class constructs the instance and
\* calls reconfigure; when that raises, no instance is handed to the host
New ==
    /\ phase = "created"
    /\ \E cfg \in ValidConfigs, openOk \in BOOLEAN :
       \E st \in (IF openOk THEN StatusOutcomes ELSE {NoStatus}) :
          /\ DoReconfigure(cfg, TRUE, openOk, st)
          /\ lastCall' = Call("new", "")
          /\ phase' = IF result'.kind = "raise" THEN "discarded" ELSE "live"
    /\ UNCHANGED auxVars

\* reconfigure(config, dependencies) on the live instance
Reconfigure ==
    /\ phase = "live"
    /\ nextHandle <= MaxOpens
    /\ \E cfg \in ValidConfigs, openOk \in BOOLEAN,
          closeOk \in (IF i2c_bus # NoneH THEN BOOLEAN ELSE {TRUE}) :
       \E st \in (IF openOk THEN StatusOutcomes ELSE {NoStatus}) :
          /\ DoReconfigure(cfg, closeOk, openOk, st)
          \* "repeat" marks a reconfigure handed the configuration of the
          \* directly preceding new / reconfigure, which had ended Ready
          /\ lastCall' = Call("reconfigure",
                              IF /\ lastCall.op \in {"new", "reconfigure"}
                                 /\ lastConfigure = "ready"
                                 /\ cfg = lastConfig
                              THEN "repeat" ELSE "")
    /\ UNCHANGED <<phase, auxVars>>

\* close()
Close ==
    /\ phase = "live"
    /\ \E closeOk \in (IF i2c_bus # NoneH THEN BOOLEAN ELSE {TRUE}) :
          LET r == close(i2c_bus, openHandles, closeOk)
          IN  /\ i2c_bus' = r.bus
              /\ openHandles' = r.open
              /\ handleBus' = [h \in 1..MaxOpens |->
                                  IF h \in r.open THEN handleBus[h] ELSE 0]
              /\ trace' = r.trace
              /\ logs' = r.logs
    /\ result' = Returned("", "", "", 0, <<>>, <<>>)
    /\ lastCall' = Call("close", "")
    /\ UNCHANGED <<phase, i2c_bus_number, nextHandle, lastConfigure, lastConfig, auxVars>>

\* variant of get_readings() that closes and drops the handle when the
\* measurement fails
GetReadings_DropsHandle ==
    /\ phase = "live"
    /\ \E wOk \in BOOLEAN :
       \E rd \in (IF wOk THEN ReadOutcomes ELSE {NoRead}) :
          LET r == get_readings(i2c_bus, openHandles, wOk, rd)
          IN  /\ trace' = r.trace
              /\ logs' = r.logs
              /\ result' = r.result
              /\ i2c_bus' = IF r.result.kind = "raise" THEN NoneH ELSE i2c_bus
              /\ openHandles' = IF r.result.kind = "raise" THEN {} ELSE openHandles
    /\ lastCall' = Call("get_readings", "")
    /\ UNCHANGED <<phase, i2c_bus_number, handleBus, nextHandle,
                   lastConfigure, lastConfig, auxVars>>

\* get_readings()
GetReadings ==
    /\ phase = "live"
    /\ \E wOk \in BOOLEAN :
       \E rd \in (IF wOk THEN ReadOutcomes ELSE {NoRead}) :
          LET r == get_readings(i2c_bus, openHandles, wOk, rd)
          IN  /\ trace' = r.trace
              /\ logs' = r.logs
              /\ result' = r.result
    /\ lastCall' = Call("get_readings", "")
    /\ UNCHANGED <<phase, i2c_bus, i2c_bus_number, openHandles, handleBus, nextHandle,
                   lastConfigure, lastConfig, auxVars>>

\* do_command(command)
DoCommand ==
    /\ phase = "live"
    /\ \E cmd \in Commands :
       \E st \in (IF cmd = "get_status" THEN StatusOutcomes ELSE {NoStatus}),
          wOk \in (IF cmd = "get_raw_data" THEN BOOLEAN ELSE {FALSE}) :
       \E rd \in (IF wOk THEN ReadOutcomes ELSE {NoRead}) :
          LET r == do_command(cmd, i2c_bus, i2c_bus_number, openHandles, st, wOk, rd)
          IN  /\ trace' = r.trace
              /\ logs' = r.logs
              /\ result' = r.result
              /\ lastCall' = Call("do_command", cmd)
    /\ UNCHANGED <<phase, i2c_bus, i2c_bus_number, openHandles, handleBus, nextHandle,
                   lastConfigure, lastConfig, auxVars>>

\* get_geometries(): always the empty list
GetGeometries ==
    /\ phase = "live"
    /\ trace' = <<>>
    /\ logs' = <<>>
    /\ result' = Returned("", "", "", 0, <<>>, <<>>)
    /\ lastCall' = Call("get_geometries", "")
    /\ UNCHANGED <<phase, i2c_bus, i2c_bus_number, openHandles, handleBus, nextHandle,
                   lastConfigure, lastConfig, auxVars>>

Next ==
    \/ ValidateConfig
    \/ New
    \/ Reconfigure
    \/ Close
    \/ GetReadings
    \/ DoCommand
    \/ GetGeometries

Spec == Init /\ [][Next]_vars

(* --------------------------- decoding check ----------------------------- *)
\* the driver right after a successful new() with an empty configuration
ReadyDriver ==
    LET cfg == Cfg(FALSE, FALSE, "int", 0)
        r == reconfigure(NoneH, DEFAULT_BUS, {}, 1, cfg, TRUE, TRUE,
                         [ok |-> TRUE, byte |-> 24])
    IN  /\ phase = "live"
        /\ i2c_bus = r.bus
        /\ i2c_bus_number = r.number
        /\ openHandles = r.open
        /\ handleBus = [h \in 1..MaxOpens |-> IF h = r.bus THEN r.number ELSE 0]
        /\ nextHandle = 2
        /\ lastConfigure = r.outcome
        /\ lastConfig = cfg
        /\ lastCall = Call("new", "")
        /\ trace = r.trace
        /\ logs = r.logs
        /\ result = r.result

RECURSIVE Pow2(_)
Pow2(n) == IF n = 0 THEN 1 ELSE 2 * Pow2(n - 1)

\* 20-bit raw values: every single bit set, every single bit cleared, and
\* the extremes and patterns 0, 0xFFFFF, 0x99999, 0xAAAAA, 0x55555
RawSamples ==
    {Pow2(k) : k \in 0..19} \cup {TwoPow20 - 1 - Pow2(k) : k \in 0..19}
    \cup {0, TwoPow20 - 1, 629145, 699050, 349525}

\* values of the bytes data[0] and data[6], which carry status and CRC
Pads == {<<0, 0>>, <<28, 77>>, <<255, 255>>}

\* the DHT-20 frame layout: humidity raw value w in data[1], data[2] and the
\* high nibble of data[3], temperature raw value v in the low nibble of
\* data[3], data[4] and data[5]
EncodeFrame(d0, w, v, d6) ==
    <<d0,
      w \div 4096,
      (w \div 16) % 256,
      (w % 16) * 16 + (v \div 65536),
      (v \div 256) % 256,
      v % 256,
      d6>>

Probes ==
    {[temp |-> v, humid |-> w, frame |-> EncodeFrame(pad[1], w, v, pad[2])] :
        v \in RawSamples, w \in RawSamples, pad \in Pads}

InitDecode ==
    /\ ReadyDriver
    /\ probe \in Probes
    /\ loop = NoCall
    /\ calls = [t \in Calls |-> IdleCall]
    /\ busLog = <<>>

\* get_readings() when the sensor answers the 7-byte read with probe.frame
MeasureProbe ==
    /\ LET r == get_readings(i2c_bus, openHandles, TRUE,
                             [ok |-> TRUE, data |-> probe.frame])
       IN  /\ trace' = r.trace
           /\ logs' = r.logs
           /\ result' = r.result
    /\ lastCall' = Call("get_readings", "")
    /\ UNCHANGED <<phase, i2c_bus, i2c_bus_number, openHandles, handleBus, nextHandle,
                   lastConfigure, lastConfig, auxVars>>

NextDecode == MeasureProbe

SpecDecode == InitDecode /\ [][NextDecode]_vars

(* -------------------------- concurrency check --------------------------- *)
\* get_readings and do_command are coroutines ("async def") run by the
\* host's event loop.  The loop runs one coroutine at a time and can switch
\* to another one only where the running one awaits; a call's bus
\* operations are executed one at a time, in the order of its program.

\* the kinds of call the host invokes concurrently
CallKinds == {"get_readings", "get_status", "get_raw_data", "reboot"}

\* variant of AfterSleep for a wait written as "await asyncio.sleep(...)":
\* the loop is released while the call waits
AfterSleep_Yields(t) == NoCall

\* who has the event loop after call t has slept: time.sleep(...) blocks the
\* thread of the loop, the call keeps it
AfterSleep(t) == t

\* the bus operations call kind issues, from the driver's operations
Program(kind, st, wOk, rd) ==
    IF kind = "get_readings"
    THEN get_readings(i2c_bus, openHandles, wOk, rd).trace
    ELSE do_command(kind, i2c_bus, i2c_bus_number, openHandles, st, wOk, rd).trace

InitConc ==
    /\ ReadyDriver
    /\ probe = NoProbe
    /\ loop = NoCall
    /\ calls = [t \in Calls |-> IdleCall]
    /\ busLog = <<>>

\* the host invokes a call: its coroutine is handed to the event loop
Invoke ==
    \E t \in Calls, kind \in CallKinds :
        /\ calls[t].state = "idle"
        /\ calls' = [calls EXCEPT ![t] = [state |-> "ready", kind |-> kind,
                                          program |-> <<>>, pos |-> 0]]
        /\ UNCHANGED <<driverVars, probe, loop, busLog>>

\* the free event loop picks a coroutine: a new one starts its body, one
\* that had awaited resumes
Run ==
    \E t \in Calls :
        /\ loop = NoCall
        /\ calls[t].state = "ready"
        /\ loop' = t
        /\ IF calls[t].pos = 0
           THEN \E st \in (IF calls[t].kind = "get_status"
                            THEN StatusOutcomes ELSE {NoStatus}),
                   wOk \in (IF calls[t].kind \in {"get_readings", "get_raw_data"}
                            THEN BOOLEAN ELSE {FALSE}) :
                \E rd \in (IF wOk THEN {NoRead, [ok |-> TRUE, data |-> Frames1]}
                            ELSE {NoRead}) :
                   calls' = [calls EXCEPT
                               ![t].program = Program(calls[t].kind, st, wOk, rd),
                               ![t].pos = 1]
           ELSE UNCHANGED calls
        /\ UNCHANGED <<driverVars, probe, busLog>>

\* the running coroutine executes its next operation, or returns
Step ==
    \E t \in Calls :
        /\ loop = t
        /\ LET c == calls[t]
           IN  IF c.pos > Len(c.program)
               THEN /\ calls' = [calls EXCEPT ![t].state = "done"]
                    /\ loop' = NoCall
                    /\ UNCHANGED busLog
               ELSE LET e == c.program[c.pos]
                    IN  /\ calls' = [calls EXCEPT ![t].pos = c.pos + 1]
                        /\ busLog' = IF e.op \in {"write", "read"}
                                      THEN Append(busLog, [call |-> t, op |-> e.op])
                                      ELSE busLog
                        /\ loop' = IF e.op = "sleep" THEN AfterSleep(t) ELSE t
        /\ UNCHANGED <<driverVars, probe>>

NextConc ==
    \/ Invoke
    \/ Run
    \/ Step

SpecConc == InitConc /\ [][NextConc]_vars

TypeOK ==
    /\ phase \in {"created", "live", "discarded"}
    /\ i2c_bus \in 0..MaxOpens
    /\ i2c_bus_number \in 0..MaxBus
    /\ openHandles \subseteq 1..MaxOpens
    /\ nextHandle \in 1..(MaxOpens + 1)
    /\ lastConfigure \in {"none", "ready", "open_failed", "presence_failed"}

(* ------------------------------ properties ------------------------------ *)
IsConfigure(c) == c.op \in {"new", "reconfigure"}
IsBusIO(e) == e.op \in {"write", "read"}
IsStatusRead(e) == e.op = "read" /\ e.addr = 56 /\ e.reg = 113 /\ e.len = 1
At(tr, op) == {i \in DOMAIN tr : tr[i].op = op}

\* C1: in every new / reconfigure call the handle held before the call is
\* closed before the open is attempted, whether or not the open succeeds, and
\* no handle is open at the moment the open is attempted.
C1_CloseBeforeOpen ==
    [][IsConfigure(lastCall') =>
          \A i \in At(trace', "open") :
              /\ trace'[i].held = {}
              /\ i2c_bus # NoneH =>
                    \E j \in 1..(i - 1) :
                        trace'[j].op = "close" /\ trace'[j].h = i2c_bus]_vars

\* a reconfigure that closed the held handle and whose open then failed
C1_Witness ==
    /\ lastCall.op = "reconfigure"
    /\ Len(trace) = 2
    /\ trace[1].op = "close"
    /\ trace[2].op = "open" /\ ~trace[2].ok

C3_PresenceFailureLeavesNoHandle ==
    (phase = "live" /\ lastConfigure = "presence_failed") =>
        /\ i2c_bus = NoneH
        /\ lastCall.op \in {"get_readings", "do_command"} =>
              /\ trace = <<>>
              /\ result.msg = "I2C bus not initialized"

\* C4: the driver never has more than one handle open, at no point of any
\* call, and no handle is open other than the one it holds.
C4_AtMostOneOpenHandle ==
    /\ Cardinality(openHandles) <= 1
    /\ openHandles \subseteq {i2c_bus}
    /\ \A i \in DOMAIN trace : Cardinality(trace[i].held) <= 1

\* a second handle is open after the first was closed by reconfigure
C4_Witness ==
    /\ lastCall.op = "reconfigure"
    /\ nextHandle > 2
    /\ openHandles = {i2c_bus}

\* C5: a get_readings that returns a reading issued, in this order, the
\* measure write (0xAC, [0x33, 0x00], address 0x38), the 100 ms wait and the
\* 7-byte read, and the reading is the decoding of the frame that read gave.
C5_ReadingFromMeasurement ==
    (lastCall.op = "get_readings" /\ result.kind = "return") =>
        /\ Len(trace) = 3
        /\ trace[1].op = "write" /\ trace[1].ok /\ trace[1].h = i2c_bus
        /\ trace[1].addr = 56 /\ trace[1].reg = 172 /\ trace[1].data = <<51, 0>>
        /\ trace[2].op = "sleep" /\ trace[2].ms = 100
        /\ trace[3].op = "read" /\ trace[3].ok /\ trace[3].h = i2c_bus
        /\ trace[3].addr = 56 /\ trace[3].len = 7 /\ Len(trace[3].data) = 7
        /\ result.reading = <<temperature20(trace[3].data), humidity20(trace[3].data)>>

\* get_readings returned a reading
C5_Witness ==
    /\ lastCall.op = "get_readings"
    /\ result.kind = "return"
    /\ result.reading # <<>>

\* C6: every block write or read is issued on a handle that is open, and
\* get_readings and do_command issue none while the driver holds no handle.
C6_NoTransactionWithoutHandle ==
    /\ \A i \in DOMAIN trace :
          IsBusIO(trace[i]) => trace[i].h # NoneH /\ trace[i].h \in trace[i].held
    /\ (lastCall.op \in {"get_readings", "do_command"} /\ i2c_bus = NoneH) =>
          \A i \in DOMAIN trace : ~IsBusIO(trace[i])

\* get_readings on a driver that was configured and holds no handle any more
C6_Witness ==
    /\ lastCall.op = "get_readings"
    /\ i2c_bus = NoneH
    /\ nextHandle > 1

\* C7: do_command always returns a value; a failed get_status is returned
\* with status "error", an unrecognised name as "Unknown command: <name>".
C7_DoCommandNeverRaises ==
    lastCall.op = "do_command" =>
        /\ result.kind = "return"
        /\ lastCall.arg = "get_status" =>
              /\ result.status \in {"ok", "error"}
              /\ (trace = <<>> \/ ~trace[Len(trace)].ok) => result.status = "error"
        /\ lastCall.arg \notin {"get_status", "get_raw_data"} =>
              result.msg = "Unknown command" /\ result.cause = lastCall.arg

\* get_raw_data whose 7-byte read raised
C7_Witness ==
    /\ lastCall = Call("do_command", "get_raw_data")
    /\ Len(trace) = 3
    /\ ~trace[3].ok

\* C8: get_readings writes at most once and reads at most once, does not
\* read after a failed write, and a failed write or read makes the call
\* raise without any reading.
C8_FailedReadingPropagates ==
    lastCall.op = "get_readings" =>
        /\ Cardinality(At(trace, "write")) <= 1
        /\ Cardinality(At(trace, "read")) <= 1
        /\ (\E i \in At(trace, "write") : ~trace[i].ok) => At(trace, "read") = {}
        /\ (\E i \in DOMAIN trace : IsBusIO(trace[i]) /\ ~trace[i].ok) =>
              result.kind = "raise" /\ result.reading = <<>>

\* get_readings whose 7-byte read raised after a successful write
C8_Witness ==
    /\ lastCall.op = "get_readings"
    /\ Len(trace) = 3
    /\ trace[1].ok
    /\ ~trace[3].ok

\* C9: in new / reconfigure the status read happens only as the single bus
\* transaction that follows a successful open (after the 500 ms wait), on
\* the handle just opened, and ends the call's bus activity; there is none
\* when the open failed; get_readings never issues a status read.
C9_PresenceCheckOncePerOpen ==
    /\ IsConfigure(lastCall) =>
          /\ Cardinality(At(trace, "open")) = 1
          /\ \A i \in At(trace, "open") :
                IF trace[i].ok
                THEN /\ Len(trace) = i + 2
                     /\ trace[i + 1].op = "sleep" /\ trace[i + 1].ms = 500
                     /\ IsStatusRead(trace[i + 2])
                     /\ trace[i + 2].h = trace[i].h
                     /\ {j \in DOMAIN trace : IsBusIO(trace[j])} = {i + 2}
                ELSE \A j \in DOMAIN trace : ~IsBusIO(trace[j])
    /\ lastCall.op = "get_readings" =>
          \A j \in DOMAIN trace : ~IsStatusRead(trace[j]) /\ trace[j].ms # 500

\* a reconfigure that closed a handle, opened a new one and checked presence
C9_Witness ==
    /\ lastCall.op = "reconfigure"
    /\ Len(trace) = 4
    /\ trace[2].op = "open" /\ trace[2].ok
    /\ IsStatusRead(trace[4])

\* C10 (as claimed): whenever a status read returns the byte 0x00 the call
\* logs a warning and the check succeeds, so that a new / reconfigure that
\* ran it returns and leaves the driver Ready.
C10_ZeroStatusWarns ==
    (\E i \in DOMAIN trace :
        IsStatusRead(trace[i]) /\ trace[i].ok /\ trace[i].data = <<0>>) =>
        /\ \E k \in DOMAIN logs : logs[k].level = "warning"
        /\ IsConfigure(lastCall) => result.kind = "return" /\ lastConfigure = "ready"

\* C11: a reconfigure that repeats the configuration of the directly
\* preceding successful new / reconfigure and itself succeeds returns
\* normally, closes the handle held so far, opens the same bus number again
\* and leaves the driver holding exactly one open handle on that bus, with
\* the configured bus number unchanged.
C11_ReconfigureIdempotent ==
    [][(lastCall' = Call("reconfigure", "repeat") /\ lastConfigure' = "ready") =>
          /\ result'.kind = "return"
          /\ i2c_bus_number' = i2c_bus_number
          /\ i2c_bus # NoneH
          /\ Len(trace') >= 2
          /\ trace'[1].op = "close" /\ trace'[1].h = i2c_bus
          /\ trace'[2].op = "open" /\ trace'[2].ok
          /\ trace'[2].bus = handleBus[i2c_bus]
          /\ i2c_bus' # NoneH
          /\ openHandles' = {i2c_bus'}
          /\ handleBus'[i2c_bus'] = handleBus[i2c_bus]]_vars

\* a successful reconfigure that repeated the preceding configuration
C11_Witness ==
    /\ lastCall = Call("reconfigure", "repeat")
    /\ lastConfigure = "ready"
    /\ lastConfig.hasBus

\* what C12 calls a configuration whose i2c_bus is present and is not a
\* non-negative integer
InvalidBus(cfg) ==
    cfg.hasAttrs /\ cfg.hasBus /\ (cfg.kind # "int" \/ cfg.i2c_bus < 0)

C14_CloseIdempotent ==
    /\ [](lastCall.op = "close" =>
             /\ result.kind = "return"
             /\ i2c_bus = NoneH
             /\ Cardinality(At(trace, "close")) <= 1)
    /\ [][(lastCall.op = "close" /\ lastCall'.op = "close") =>
             /\ trace' = <<>>
             /\ i2c_bus' = i2c_bus
             /\ openHandles' = openHandles
             /\ i2c_bus_number' = i2c_bus_number]_vars

\* a close() whose bus close raised
C14_Witness ==
    /\ lastCall.op = "close"
    /\ Len(trace) = 1
    /\ ~trace[1].ok
    /\ i2c_bus = NoneH

\* C16: get_readings, do_command, get_geometries and close leave the
\* configured bus number as it is, and the first three also leave the held
\* handle as it is.
C16_ConfigurationImmutable ==
    [][/\ lastCall'.op \in {"get_readings", "do_command", "get_geometries", "close"} =>
             i2c_bus_number' = i2c_bus_number
       /\ lastCall'.op \in {"get_readings", "do_command", "get_geometries"} =>
             i2c_bus' = i2c_bus /\ openHandles' = openHandles]_vars

\* a failed get_readings on a driver configured for a bus other than the default
C16_Witness ==
    /\ lastCall.op = "get_readings"
    /\ result.kind = "raise"
    /\ i2c_bus # NoneH
    /\ i2c_bus_number # 1

\* C17 (as claimed): a new / reconfigure whose configuration carries no
\* i2c_bus opens bus number 1.
C17_DefaultBusWhenAbsent ==
    (IsConfigure(lastCall) /\ ~lastConfig.hasBus) =>
        \A i \in At(trace, "open") : trace[i].bus = 1

\* C19 (as claimed): without a handle, get_status and get_raw_data return an
\* error value with the message "I2C bus not initialized".
C19_NoHandleMessage ==
    (/\ lastCall.op = "do_command"
     /\ lastCall.arg \in {"get_status", "get_raw_data"}
     /\ i2c_bus = NoneH) =>
        result.kind = "return" /\ result.msg = "I2C bus not initialized"

\* C20: the handle the driver holds is open on the configured bus number, and
\* the bus number a successful get_status reports is that of the held handle.
C20_HandleOnConfiguredBus ==
    /\ i2c_bus # NoneH =>
          i2c_bus \in openHandles /\ handleBus[i2c_bus] = i2c_bus_number
    /\ (lastCall = Call("do_command", "get_status") /\ result.status = "ok") =>
          i2c_bus # NoneH /\ result.bus = handleBus[i2c_bus]

\* get_status succeeded on a driver configured for a bus other than the default
C20_Witness ==
    /\ lastCall = Call("do_command", "get_status")
    /\ result.status = "ok"
    /\ result.bus # 1

\* C15: when the raw values v (temperature) and w (humidity) are placed in
\* their bit positions of the frame, whatever data[0] and data[6] are, the
\* measurement decodes exactly v and w: the reading is 200 v / 2^20 - 50 and
\* 100 w / 2^20.
C15_DecodeRoundTrip ==
    lastCall.op = "get_readings" =>
        /\ result.kind = "return"
        /\ result.reading[1] = 200 * probe.temp - 50 * 1048576
        /\ result.reading[2] = 100 * probe.humid

\* the largest temperature value next to the smallest humidity value,
\* decoded from a frame with non-zero data[0] and data[6]
C15_Witness ==
    /\ lastCall.op = "get_readings"
    /\ probe.temp = 1048575
    /\ probe.humid = 0
    /\ probe.frame[1] = 255
    /\ result.kind = "return"

\* the frame the most recent measurement read
ReadFrame == trace[Len(trace)].data

\* C18: the raw values are ((data[3] & 0x0F) << 16) | (data[4] << 8) | data[5]
\* and ((data[3] & 0xF0) >> 4) | (data[1] << 12) | (data[2] << 4), functions
\* of data[1..5] alone, and the reading made of them is returned unchanged,
\* also outside temperature [-40, 80] and humidity [0, 100].
C18_DecodeFormulas ==
    lastCall.op = "get_readings" =>
        /\ result.kind = "return"
        /\ result.reading[1] =
              200 * BitOr(BitOr(BitAnd(ReadFrame[4], 15) * 65536, ReadFrame[5] * 256),
                          ReadFrame[6]) - 50 * 1048576
        /\ result.reading[2] =
              100 * BitOr(BitOr(BitAnd(ReadFrame[4], 240) \div 16, ReadFrame[2] * 4096),
                          ReadFrame[3] * 16)

\* a reading above 80 degrees was returned, with the range warning logged
C18_Witness ==
    /\ lastCall.op = "get_readings"
    /\ result.kind = "return"
    /\ result.reading[1] > 80 * 1048576
    /\ \E k \in DOMAIN logs : logs[k].level = "warning"

\* a call that has started its body and has not returned
InFlight(t) == calls[t].state = "ready" /\ calls[t].pos >= 1

\* C13: of the calls the host has invoked concurrently at most one is
\* between the start and the end of its bus sequence, and the bus transfers
\* of one call are never separated by a transfer of another call.
C13_BusAccessSerialized ==
    /\ Cardinality({t \in Calls : InFlight(t)}) <= 1
    /\ \A i, j, k \in DOMAIN busLog :
          (i < j /\ j < k /\ busLog[i].call = busLog[k].call) =>
              busLog[j].call = busLog[i].call

\* one call sits between its write and its read while another invoked call
\* waits for the event loop
C13_Witness ==
    \E t, u \in Calls :
        /\ t # u
        /\ InFlight(t)
        /\ calls[t].pos = 3
        /\ Len(calls[t].program) = 3
        /\ busLog # <<>>
        /\ calls[u].state = "ready"
        /\ calls[u].pos = 0

====
